---------------------------- MODULE Spec2Model ----------------------------
(***************************************************************************)
(* State-machine model of the AXP20x power-management driver (src/lib.rs). *)
(*                                                                         *)
(* The driver handle Axpxx owns an I2C bus, a bus address and a lifecycle  *)
(* state.  The bus is modelled as the register file of the device behind   *)
(* it plus the list of transactions issued by the call in progress.        *)
(* A u8 is a number in 0..255.  A u64 (EventsIrq) is the tuple of its      *)
(* eight bytes, least significant first, so that shifts by multiples of 8  *)
(* and truncations keep their exact meaning.                               *)
(***************************************************************************)
EXTENDS Naturals, Sequences, FiniteSets, TLC

VARIABLES
    state,      \* self.state: <<"Uninitialized">> or <<"Initialized", chip id>>
    address,    \* self.address
    regs,       \* registers the device retains between calls (rail control, IRQ enables)
    pc,         \* "idle", or "busy_wait" inside the loop of set_power_output
    call,       \* the call in progress or last completed: operation, arguments, result
    log,        \* bus transactions issued by that call, in order
    delays,     \* delay_ms(10) invocations made by that call
    old         \* self.state and regs as they were when that call started

vars == <<state, address, regs, pc, call, log, delays, old>>

----------------------------------------------------------------------------
(* Bounds of the model                                                     *)

\* Largest number of consecutive zero reads of the rail-control register
\* followed inside one set_power_output call.
MaxZeroReads == 2

----------------------------------------------------------------------------
(* u8 arithmetic                                                           *)

Byte == 0..255

RECURSIVE BitAnd(_, _)
BitAnd(a, b) ==
    IF a = 0 \/ b = 0 THEN 0
    ELSE (a % 2) * (b % 2) + 2 * BitAnd(a \div 2, b \div 2)

RECURSIVE BitOr(_, _)
BitOr(a, b) ==
    IF a = 0 THEN b
    ELSE IF b = 0 THEN a
    ELSE (IF a % 2 = 1 \/ b % 2 = 1 THEN 1 ELSE 0) + 2 * BitOr(a \div 2, b \div 2)

\* !x on a u8
BitNot(a) == 255 - a

\* bit i of a u8
Bit(a, i) == (a \div (2 ^ i)) % 2

----------------------------------------------------------------------------
(* u64 arithmetic on EventsIrq: the tuple of the eight bytes, low first    *)

U64Zero == <<0, 0, 0, 0, 0, 0, 0, 0>>

\* val as u64
U64FromU8(val) == <<val, 0, 0, 0, 0, 0, 0, 0>>

\* m as u8
U64AsU8(m) == m[1]

\* m >> 8k
U64Shr(m, k) == [i \in 1..8 |-> IF i + k <= 8 THEN m[i + k] ELSE 0]

\* m.checked_shl(8k).expect(..): 8k < 64 for every k used, so it never panics
U64CheckedShl(m, k) == [i \in 1..8 |-> IF i - k >= 1 THEN m[i - k] ELSE 0]

bitand(a, b) == [i \in 1..8 |-> BitAnd(a[i], b[i])]
bitor(a, b) == [i \in 1..8 |-> BitOr(a[i], b[i])]
not(a) == [i \in 1..8 |-> BitNot(a[i])]
intersects(a, b) == bitand(a, b) # U64Zero

\* enum EventsIrq
PowerKeyShortPress == <<0, 0, 2, 0, 0, 0, 0, 0>>
Int1 == <<255, 0, 0, 0, 0, 0, 0, 0>>
Int2 == <<0, 255, 0, 0, 0, 0, 0, 0>>
Int3 == <<0, 0, 255, 0, 0, 0, 0, 0>>
Int4 == <<0, 0, 0, 255, 0, 0, 0, 0>>
Int5 == <<0, 0, 0, 0, 255, 0, 0, 0>>

is_int1(self) == intersects(self, Int1)
\* is_int2 testing the bits of bank 1
is_int2_as_int1(self) == intersects(self, Int1)
is_int2(self) == intersects(self, Int2)
is_int3(self) == intersects(self, Int3)
is_int4(self) == intersects(self, Int4)
is_int5(self) == intersects(self, Int5)

into_int1_u8(self) == U64AsU8(bitand(self, Int1))
into_int2_u8(self) == U64AsU8(U64Shr(bitand(self, Int2), 1))
into_int3_u8(self) == U64AsU8(U64Shr(bitand(self, Int3), 2))
\* into_int4_u8 shifting by 16 as into_int3_u8 does
into_int4_u8_shr16(self) == U64AsU8(U64Shr(bitand(self, Int4), 2))
into_int4_u8(self) == U64AsU8(U64Shr(bitand(self, Int4), 3))
into_int5_u8(self) == U64AsU8(U64Shr(bitand(self, Int5), 4))

from_int1_u8(val) == bitand(Int1, U64FromU8(val))
from_int2_u8(val) == bitand(Int2, U64CheckedShl(U64FromU8(val), 1))
\* from_int3_u8 shifting by 8 as from_int2_u8 does
from_int3_u8_shl8(val) == bitand(Int3, U64CheckedShl(U64FromU8(val), 1))
from_int3_u8(val) == bitand(Int3, U64CheckedShl(U64FromU8(val), 2))
from_int4_u8(val) == bitand(Int4, U64CheckedShl(U64FromU8(val), 3))
from_int5_u8(val) == bitand(Int5, U64CheckedShl(U64FromU8(val), 4))

\* toggle with the enable and disable branches exchanged
toggle_swapped(self, current_mask, enable) ==
    IF enable THEN bitand(self, not(current_mask))
    ELSE bitor(self, current_mask)

toggle(self, current_mask, enable) ==
    IF enable THEN bitor(self, current_mask)
    ELSE bitand(self, not(current_mask))

----------------------------------------------------------------------------
(* Registers, chip ids, power rails                                        *)

DEFAULT_AXP202_SLAVE_ADDR == \H35

\* enum Register
PowerInputStatusReg == \H00
PowerWorkingModeChargeStatus == \H01
IcType == \H03
Ldo234Dc23Ctl == \H12
Charge1 == \H33
EnabledIrq1 == \H40
EnabledIrq2 == \H41
EnabledIrq3 == \H42
EnabledIrq4 == \H43
EnabledIrq5 == \H45
StatusIrq1 == \H48
StatusIrq2 == \H49
StatusIrq3 == \H4A
StatusIrq4 == \H4B
StatusIrq5 == \H4C
BatteryAverageVoltageHigh8b == \H78
BatteryAverageVoltageLow4b == \H79
BatteryPercentage == \HB9

EnabledRegs == <<EnabledIrq1, EnabledIrq2, EnabledIrq3, EnabledIrq4, EnabledIrq5>>
StatusRegs == <<StatusIrq1, StatusIrq2, StatusIrq3, StatusIrq4, StatusIrq5>>

\* enum ChipId, and ChipId::from(u8) as derived by FromPrimitive with
\* #[default] Unknown
ChipIds == {"Unknown", "Axp202", "Axp192", "Axp173"}

\* ChipId::from with the codes of Axp192 and Axp173 exchanged
ChipId_from_swapped(b) ==
    IF b = \H41 THEN "Axp202"
    ELSE IF b = \HAD THEN "Axp192"
    ELSE IF b = \H03 THEN "Axp173"
    ELSE "Unknown"

ChipId_from(b) ==
    IF b = \H41 THEN "Axp202"
    ELSE IF b = \H03 THEN "Axp192"
    ELSE IF b = \HAD THEN "Axp173"
    ELSE "Unknown"

\* enum Power (bitmask over u8)
Exten == 1
DcDc3 == 2
Ldo2 == 4
Ldo4 == 8
DcDc2 == 16
Ldo3 == 64

\* enum State
Uninitialized == <<"Uninitialized">>
Initialized(chip_id) == <<"Initialized", chip_id>>

\* Result values; the transport's error type E is opaque and has one value here
Ok(v) == [tag |-> "Ok", val |-> v]
Err(e) == [tag |-> "Err", val |-> e]
I2cError == <<"I2cError", "E">>
ErrUninitialized == <<"Uninitialized">>


----------------------------------------------------------------------------
(* The handle and the bus                                                  *)
(*                                                                         *)
(* self == [i2c, address, state].  self.i2c == [dev, log, failAt]: dev is  *)
(* the register file of the device, log the transactions issued so far,    *)
(* failAt the position in log of the transaction the transport fails       *)
(* (0: none).  Every method returns [self, ret].                           *)

Tx(kind, addr, reg, val, ok) ==
    [kind |-> kind, addr |-> addr, reg |-> reg, val |-> val, ok |-> ok]

\* I2c::write_read(address, [reg], buf): buf keeps its 0 when the transfer fails
i2c_write_read(i2c, addr, reg) ==
    LET fails == i2c.failAt = Len(i2c.log) + 1
        val == IF fails THEN 0 ELSE i2c.dev[reg]
    IN [i2c |-> [i2c EXCEPT !.log = Append(@, Tx("write_read", addr, reg, val, ~fails))],
        ret |-> IF fails THEN Err("E") ELSE Ok(val)]

\* I2c::write(address, [reg, val]): the device takes the value unless the transfer fails
i2c_write(i2c, addr, reg, val) ==
    LET fails == i2c.failAt = Len(i2c.log) + 1
    IN [i2c |-> [i2c EXCEPT !.log = Append(@, Tx("write", addr, reg, val, ~fails)),
                             !.dev = IF fails THEN @ ELSE [@ EXCEPT ![reg] = val]],
        ret |-> IF fails THEN Err("E") ELSE Ok(<<>>)]

\* The ? operator on a bus result: From<E> for Error<E>
IsErr(r) == r.ret.tag = "Err"

read_reg(self, reg) ==
    LET r == i2c_write_read(self.i2c, self.address, reg)
    IN [self |-> [self EXCEPT !.i2c = r.i2c],
        ret |-> IF r.ret.tag = "Err" THEN Err(I2cError) ELSE Ok(r.ret.val)]

\* write_reg dropping the transport's error
write_reg_unchecked(self, reg, val) ==
    LET r == i2c_write(self.i2c, self.address, reg, val)
    IN [self |-> [self EXCEPT !.i2c = r.i2c], ret |-> Ok(<<>>)]

write_reg(self, reg, val) ==
    LET r == i2c_write(self.i2c, self.address, reg, val)
    IN [self |-> [self EXCEPT !.i2c = r.i2c],
        ret |-> IF r.ret.tag = "Err" THEN Err(I2cError) ELSE Ok(<<>>)]

probe_chip(self) ==
    LET chip_id == read_reg(self, IcType)
    IN IF IsErr(chip_id) THEN chip_id
       ELSE [self |-> chip_id.self, ret |-> Ok(ChipId_from(chip_id.ret.val))]

\* Axpxx::new, Axpxx::new_with_address
new_with_address(i2c, addr) == [i2c |-> i2c, address |-> addr, state |-> Uninitialized]
new(i2c) == new_with_address(i2c, DEFAULT_AXP202_SLAVE_ADDR)

\* init falling back to Uninitialized when the identity read fails
init_reset_on_error(self) ==
    LET chip_id == probe_chip(self)
    IN IF IsErr(chip_id)
       THEN [self |-> [chip_id.self EXCEPT !.state = Uninitialized], ret |-> chip_id.ret]
       ELSE [self |-> [chip_id.self EXCEPT !.state = Initialized(chip_id.ret.val)],
             ret |-> Ok(<<>>)]

init(self) ==
    LET chip_id == probe_chip(self)
    IN IF IsErr(chip_id) THEN chip_id
       ELSE [self |-> [chip_id.self EXCEPT !.state = Initialized(chip_id.ret.val)],
             ret |-> Ok(<<>>)]

----------------------------------------------------------------------------
(* Status queries: one read, one flag of the byte read                     *)

\* bitmask PowerInputStatus, bitmask Charge
BootSource == 1
AcinVbusShortCircuit == 2
CurrentDirection == 4
VbusAbove == 8
VbusUsable == 16
VbusPresence == 32
AcinUsable == 64
AcinPresence == 128
Charging == 128

\* let v = self.read_reg(reg)?; Ok(Flags(v).intersects(flag))
flag_query(self, reg, flag) ==
    LET r == read_reg(self, reg)
    IN IF IsErr(r) THEN r
       ELSE [self |-> r.self, ret |-> Ok(BitAnd(r.ret.val, flag) # 0)]

is_acin_present(self) == flag_query(self, PowerInputStatusReg, AcinPresence)
is_acin_usable(self) == flag_query(self, PowerInputStatusReg, AcinUsable)
is_vbus_present(self) == flag_query(self, PowerInputStatusReg, VbusPresence)
is_vbus_usable(self) == flag_query(self, PowerInputStatusReg, VbusUsable)
is_vbus_above(self) == flag_query(self, PowerInputStatusReg, VbusAbove)
is_battery_charging(self) == flag_query(self, Charge1, Charging)
is_acin_vbus_shortcircuit(self) == flag_query(self, PowerInputStatusReg, AcinVbusShortCircuit)
is_bootsource_acin_vbus(self) == flag_query(self, PowerInputStatusReg, BootSource)

get_battery_percentage(self) == read_reg(self, BatteryPercentage)

\* The f32 result is count * 1.1; the model returns the count and the
\* result in tenths, count * 11.
get_battery_voltage(self) ==
    LET battery_high_8b == read_reg(self, BatteryAverageVoltageHigh8b)
    IN IF IsErr(battery_high_8b) THEN battery_high_8b
       ELSE LET battery_low_4b == read_reg(battery_high_8b.self, BatteryAverageVoltageLow4b)
            IN IF IsErr(battery_low_4b) THEN battery_low_4b
               ELSE LET count == battery_high_8b.ret.val * 16
                                 + BitAnd(battery_low_4b.ret.val, 15)
                    IN [self |-> battery_low_4b.self, ret |-> Ok(count * 11)]

----------------------------------------------------------------------------
(* Interrupt enable, clear and read                                        *)

\* One `if irqs.is_intN() { .. }` block of toggle_irq.  `irqs` inside the
\* block shadows the argument, which the next block sees unchanged.
toggle_irq_int1(self, irqs, enable) ==
    IF ~is_int1(irqs) THEN [self |-> self, ret |-> Ok(<<>>)]
    ELSE LET r == read_reg(self, EnabledIrq1)
         IN IF IsErr(r) THEN r
            ELSE LET irq1 == from_int1_u8(r.ret.val)
                     irqs_ == toggle(irqs, irq1, enable)
                 IN write_reg(r.self, EnabledIrq1, into_int1_u8(irqs_))

toggle_irq_int2(self, irqs, enable) ==
    IF ~is_int2(irqs) THEN [self |-> self, ret |-> Ok(<<>>)]
    ELSE LET r == read_reg(self, EnabledIrq2)
         IN IF IsErr(r) THEN r
            ELSE LET irq2 == bitor(from_int2_u8(r.ret.val), irqs)
                     irqs_ == toggle(irqs, irq2, enable)
                 IN write_reg(r.self, EnabledIrq2, into_int2_u8(irqs_))

toggle_irq_int3(self, irqs, enable) ==
    IF ~is_int3(irqs) THEN [self |-> self, ret |-> Ok(<<>>)]
    ELSE LET r == read_reg(self, EnabledIrq3)
         IN IF IsErr(r) THEN r
            ELSE LET irq3 == bitor(from_int3_u8(r.ret.val), irqs)
                     irqs_ == toggle(irqs, irq3, enable)
                 IN write_reg(r.self, EnabledIrq3, into_int3_u8(irqs_))

toggle_irq_int4(self, irqs, enable) ==
    IF ~is_int4(irqs) THEN [self |-> self, ret |-> Ok(<<>>)]
    ELSE LET r == read_reg(self, EnabledIrq4)
         IN IF IsErr(r) THEN r
            ELSE LET irq4 == bitor(from_int4_u8(r.ret.val), irqs)
                     irqs_ == toggle(irqs, irq4, enable)
                 IN write_reg(r.self, EnabledIrq4, into_int4_u8(irqs_))

toggle_irq_int5(self, irqs, enable) ==
    IF ~is_int5(irqs) THEN [self |-> self, ret |-> Ok(<<>>)]
    ELSE LET r == read_reg(self, EnabledIrq5)
         IN IF IsErr(r) THEN r
            ELSE LET irq5 == bitor(from_int5_u8(r.ret.val), irqs)
                     irqs_ == toggle(irqs, irq5, enable)
                 IN write_reg(r.self, EnabledIrq5, into_int5_u8(irqs_))

toggle_irq(self, irqs, enable) ==
    LET b1 == toggle_irq_int1(self, irqs, enable) IN
    IF IsErr(b1) THEN b1 ELSE
    LET b2 == toggle_irq_int2(b1.self, irqs, enable) IN
    IF IsErr(b2) THEN b2 ELSE
    LET b3 == toggle_irq_int3(b2.self, irqs, enable) IN
    IF IsErr(b3) THEN b3 ELSE
    LET b4 == toggle_irq_int4(b3.self, irqs, enable) IN
    IF IsErr(b4) THEN b4 ELSE
    LET b5 == toggle_irq_int5(b4.self, irqs, enable) IN
    IF IsErr(b5) THEN b5 ELSE
    [self |-> b5.self, ret |-> Ok(<<>>)]

clear_irq(self) ==
    LET w1 == write_reg(self, StatusIrq1, \HFF) IN
    IF IsErr(w1) THEN w1 ELSE
    LET w2 == write_reg(w1.self, StatusIrq2, \HFF) IN
    IF IsErr(w2) THEN w2 ELSE
    LET w3 == write_reg(w2.self, StatusIrq3, \HFF) IN
    IF IsErr(w3) THEN w3 ELSE
    LET w4 == write_reg(w3.self, StatusIrq4, \HFF) IN
    IF IsErr(w4) THEN w4 ELSE
    LET w5 == write_reg(w4.self, StatusIrq5, \HFF) IN
    IF IsErr(w5) THEN w5 ELSE
    [self |-> w5.self, ret |-> Ok(<<>>)]

\* read_irq acknowledging before it reads
read_irq_clear_first(self) ==
    LET c == clear_irq(self) IN
    IF IsErr(c) THEN c ELSE
    LET irq1 == read_reg(c.self, StatusIrq1) IN
    IF IsErr(irq1) THEN irq1 ELSE
    LET irq2 == read_reg(irq1.self, StatusIrq2) IN
    IF IsErr(irq2) THEN irq2 ELSE
    LET irq3 == read_reg(irq2.self, StatusIrq3) IN
    IF IsErr(irq3) THEN irq3 ELSE
    LET irq4 == read_reg(irq3.self, StatusIrq4) IN
    IF IsErr(irq4) THEN irq4 ELSE
    LET irq5 == read_reg(irq4.self, StatusIrq5) IN
    IF IsErr(irq5) THEN irq5 ELSE
    [self |-> irq5.self,
     ret |-> Ok(bitor(bitor(bitor(bitor(from_int1_u8(irq1.ret.val),
                                        from_int2_u8(irq2.ret.val)),
                                  from_int3_u8(irq3.ret.val)),
                            from_int4_u8(irq4.ret.val)),
                      from_int5_u8(irq5.ret.val)))]

\* read_irq acknowledging only when some event is pending
read_irq_clear_if_pending(self) ==
    LET irq1 == read_reg(self, StatusIrq1) IN
    IF IsErr(irq1) THEN irq1 ELSE
    LET irq2 == read_reg(irq1.self, StatusIrq2) IN
    IF IsErr(irq2) THEN irq2 ELSE
    LET irq3 == read_reg(irq2.self, StatusIrq3) IN
    IF IsErr(irq3) THEN irq3 ELSE
    LET irq4 == read_reg(irq3.self, StatusIrq4) IN
    IF IsErr(irq4) THEN irq4 ELSE
    LET irq5 == read_reg(irq4.self, StatusIrq5) IN
    IF IsErr(irq5) THEN irq5 ELSE
    LET events == bitor(bitor(bitor(bitor(from_int1_u8(irq1.ret.val),
                                          from_int2_u8(irq2.ret.val)),
                                    from_int3_u8(irq3.ret.val)),
                              from_int4_u8(irq4.ret.val)),
                        from_int5_u8(irq5.ret.val))
        c == IF events = U64Zero THEN [self |-> irq5.self, ret |-> Ok(<<>>)]
             ELSE clear_irq(irq5.self)
    IN IF IsErr(c) THEN c ELSE [self |-> c.self, ret |-> Ok(events)]

read_irq(self) ==
    LET irq1 == read_reg(self, StatusIrq1) IN
    IF IsErr(irq1) THEN irq1 ELSE
    LET irq2 == read_reg(irq1.self, StatusIrq2) IN
    IF IsErr(irq2) THEN irq2 ELSE
    LET irq3 == read_reg(irq2.self, StatusIrq3) IN
    IF IsErr(irq3) THEN irq3 ELSE
    LET irq4 == read_reg(irq3.self, StatusIrq4) IN
    IF IsErr(irq4) THEN irq4 ELSE
    LET irq5 == read_reg(irq4.self, StatusIrq5) IN
    IF IsErr(irq5) THEN irq5 ELSE
    LET c == clear_irq(irq5.self) IN
    IF IsErr(c) THEN c ELSE
    [self |-> c.self,
     ret |-> Ok(bitor(bitor(bitor(bitor(from_int1_u8(irq1.ret.val),
                                        from_int2_u8(irq2.ret.val)),
                                  from_int3_u8(irq3.ret.val)),
                            from_int4_u8(irq4.ret.val)),
                      from_int5_u8(irq5.ret.val)))]

----------------------------------------------------------------------------
(* Power rails                                                             *)

\* power_output_value forcing DcDc3 before the rails are set or cleared
power_output_value_quirk_first(chip_id, data, channel, pstate) ==
    LET data_ == IF chip_id = "Axp202" THEN BitOr(data, DcDc3) ELSE data
    IN IF pstate = "On" THEN BitOr(data_, channel)
       ELSE BitAnd(data_, BitNot(channel))

\* power_output_value forcing DcDc3 whatever the chip
power_output_value_quirk_always(chip_id, data, channel, pstate) ==
    LET data_ == IF pstate = "On" THEN BitOr(data, channel)
                 ELSE BitAnd(data, BitNot(channel))
    IN BitOr(data_, DcDc3)

\* power_output_value clearing with the mask itself, the complement forgotten
power_output_value_off_keeps_mask(chip_id, data, channel, pstate) ==
    LET data_ == IF pstate = "On" THEN BitOr(data, channel)
                 ELSE BitAnd(data, channel)
    IN IF chip_id = "Axp202" THEN BitOr(data_, DcDc3) ELSE data_

\* power_output_value applying the DcDc3 rule to the wrong chip
power_output_value_quirk_axp192(chip_id, data, channel, pstate) ==
    LET data_ == IF pstate = "On" THEN BitOr(data, channel)
                 ELSE BitAnd(data, BitNot(channel))
    IN IF chip_id = "Axp192" THEN BitOr(data_, DcDc3) ELSE data_

\* The value written: data |= channel or data &= !channel, then the
\* Axp202 rule that DcDc3 stays on.
power_output_value(chip_id, data, channel, pstate) ==
    LET data_ == IF pstate = "On" THEN BitOr(data, channel)
                 ELSE BitAnd(data, BitNot(channel))
    IN IF chip_id = "Axp202" THEN BitOr(data_, DcDc3) ELSE data_

Pending == [tag |-> "Pending", val |-> <<>>]

\* busy_wait giving up at the first zero read instead of reading again
busy_wait_gives_up(self, chip_id, channel, pstate, delay) ==
    LET data == read_reg(self, Ldo234Dc23Ctl)
    IN IF IsErr(data)
       THEN [self |-> data.self, ret |-> data.ret, delay |-> delay, pc |-> "idle"]
       ELSE IF data.ret.val = 0
       THEN [self |-> data.self, ret |-> Err(I2cError), delay |-> delay + 1, pc |-> "idle"]
       ELSE LET w == write_reg(data.self, Ldo234Dc23Ctl,
                               power_output_value(chip_id, data.ret.val, channel, pstate))
            IN [self |-> w.self, ret |-> w.ret, delay |-> delay + 1, pc |-> "idle"]

\* From the head of the loop to the return, or back to the head of the loop
\* when the register read zero.  Returns [self, ret, delay, pc].
busy_wait(self, chip_id, channel, pstate, delay) ==
    LET data == read_reg(self, Ldo234Dc23Ctl)
    IN IF IsErr(data)
       THEN [self |-> data.self, ret |-> data.ret, delay |-> delay, pc |-> "idle"]
       ELSE IF data.ret.val = 0
       THEN [self |-> data.self, ret |-> Pending, delay |-> delay + 1, pc |-> "busy_wait"]
       ELSE LET w == write_reg(data.self, Ldo234Dc23Ctl,
                               power_output_value(chip_id, data.ret.val, channel, pstate))
            IN [self |-> w.self, ret |-> w.ret, delay |-> delay + 1, pc |-> "idle"]

\* set_power_output taking a handle that was never initialized for one of
\* an unknown chip
set_power_output_unchecked(self, channel, pstate, delay) ==
    busy_wait(self, IF self.state = Uninitialized THEN "Unknown" ELSE self.state[2],
              channel, pstate, delay)

set_power_output(self, channel, pstate, delay) ==
    IF self.state = Uninitialized
    THEN [self |-> self, ret |-> Err(ErrUninitialized), delay |-> delay, pc |-> "idle"]
    ELSE busy_wait(self, self.state[2], channel, pstate, delay)

----------------------------------------------------------------------------
(* Inputs                                                                  *)

On == "On"
Off == "Off"

\* Bus addresses a handle is constructed with
Addresses == {DEFAULT_AXP202_SLAVE_ADDR, \H34}

\* Bytes the identity register may hold
IdBytes == {\H00, \H03, \H41, \HAD, \H42, \HFF}

\* Bytes the rail-control register may hold on the device's own account
RailBytes == {\H00, \H01, \H02, \H05, \H5F}

\* Rail masks a caller passes (Power is any u8)
Channels == {\H00, Exten, DcDc3, Ldo2, \H03, \H5F, \HFF}

\* Event masks a caller passes (EventsIrq is any u64)
EventMasks ==
    { U64Zero,
      PowerKeyShortPress,
      Int1,
      <<1, 0, 0, 0, 1, 0, 0, 0>>,
      <<16, 32, 0, 64, 0, 0, 0, 0>>,
      <<0, 0, 0, 0, 0, 1, 0, 128>>,
      <<255, 255, 255, 255, 255, 255, 255, 255>> }

\* Initial contents of the five IRQ-enable registers
EnableInits ==
    { <<0, 0, 0, 0, 0>>,
      <<4, 8, 1, 0, 128>>,
      <<255, 255, 255, 255, 255>> }

\* Contents of the five IRQ-status registers when a call reads them
StatusSamples ==
    { <<0, 0, 0, 0, 0>>,
      <<1, 0, 0, 0, 0>>,
      <<18, 52, 86, 120, 154>>,
      <<255, 255, 255, 255, 255>> }

\* Bytes of the status, charge and battery registers
StatusBytes == {\H00, \H05, \H80, \HFF}

\* The narrow inputs of the specification that runs every operation
FewRailBytes == {\H00, \H05}
FewChannels == {Ldo2}
FewEventMasks == {<<1, 0, 2, 0, 0, 0, 0, 0>>}
FewEnableInits == {<<0, 0, 0, 0, 0>>}
FewStatusSamples == {<<18, 52, 86, 120, 154>>}
FewStatusBytes == {\HA5}

\* Positions at which the transport may fail a call (0: it does not)
NoFailure == {0}

RetainedRegs == {Ldo234Dc23Ctl, EnabledIrq1, EnabledIrq2, EnabledIrq3, EnabledIrq4, EnabledIrq5}

EnableFile(e) == [r \in {EnabledRegs[n] : n \in 1..5} |->
                    e[CHOOSE n \in 1..5 : EnabledRegs[n] = r]]
StatusFile(sv) == [r \in {StatusRegs[n] : n \in 1..5} |->
                    sv[CHOOSE n \in 1..5 : StatusRegs[n] = r]]

----------------------------------------------------------------------------
(* The state machine                                                       *)

\* The handle as a call finds it: the device holds the retained registers
\* and `dev_in` for the registers the device drives itself; the transport
\* fails the transaction at position failAt of the call (0: none).
Self(dev_in, failAt) ==
    [i2c |-> [dev |-> regs @@ dev_in, log |-> log, failAt |-> failAt],
     address |-> address,
     state |-> state]

Fresh(dev_in, failAt) ==
    [Self(dev_in, failAt) EXCEPT !.i2c.log = <<>>]

Commit(op, args, res, delay, next_pc) ==
    /\ state' = res.self.state
    /\ address' = res.self.address
    /\ regs' = [r \in RetainedRegs |-> res.self.i2c.dev[r]]
    /\ log' = res.self.i2c.log
    /\ call' = [op |-> op, args |-> args, ret |-> res.ret]
    /\ delays' = delay
    /\ pc' = next_pc

Snapshot == old' = [state |-> state, regs |-> regs]

\* Axpxx::new for the default address, Axpxx::new_with_address for any other
Construct(addresses, rails, enables) ==
    /\ \E a \in addresses :
          LET self == IF a = DEFAULT_AXP202_SLAVE_ADDR
                      THEN new(<<>>) ELSE new_with_address(<<>>, a)
          IN state = self.state /\ address = self.address
    /\ \E v \in rails, e \in enables :
          regs = (Ldo234Dc23Ctl :> v) @@ EnableFile(e)
    /\ pc = "idle"
    /\ call = [op |-> "new", args |-> <<>>, ret |-> Ok(<<>>)]
    /\ log = <<>>
    /\ delays = 0
    /\ old = [state |-> state, regs |-> regs]

Do_init(ids, fails) ==
    /\ pc = "idle"
    /\ \E b \in ids, f \in fails :
          Commit("init", <<>>, init(Fresh(IcType :> b, f)), 0, "idle")
    /\ Snapshot

Do_flag_query(bytes, fails) ==
    /\ pc = "idle"
    /\ \E b \in bytes, f \in fails :
          LET dev_in == (PowerInputStatusReg :> b) @@ (Charge1 :> b)
              self == Fresh(dev_in, f)
          IN \/ Commit("is_acin_present", <<>>, is_acin_present(self), 0, "idle")
             \/ Commit("is_acin_usable", <<>>, is_acin_usable(self), 0, "idle")
             \/ Commit("is_vbus_present", <<>>, is_vbus_present(self), 0, "idle")
             \/ Commit("is_vbus_usable", <<>>, is_vbus_usable(self), 0, "idle")
             \/ Commit("is_vbus_above", <<>>, is_vbus_above(self), 0, "idle")
             \/ Commit("is_battery_charging", <<>>, is_battery_charging(self), 0, "idle")
             \/ Commit("is_acin_vbus_shortcircuit", <<>>,
                       is_acin_vbus_shortcircuit(self), 0, "idle")
             \/ Commit("is_bootsource_acin_vbus", <<>>,
                       is_bootsource_acin_vbus(self), 0, "idle")
    /\ Snapshot

Do_get_battery_percentage(bytes, fails) ==
    /\ pc = "idle"
    /\ \E b \in bytes, f \in fails :
          Commit("get_battery_percentage", <<>>,
                 get_battery_percentage(Fresh(BatteryPercentage :> b, f)), 0, "idle")
    /\ Snapshot

Do_get_battery_voltage(highs, lows, fails) ==
    /\ pc = "idle"
    /\ \E hi \in highs, lo \in lows, f \in fails :
          Commit("get_battery_voltage", <<>>,
                 get_battery_voltage(Fresh((BatteryAverageVoltageHigh8b :> hi)
                                           @@ (BatteryAverageVoltageLow4b :> lo), f)),
                 0, "idle")
    /\ Snapshot

Do_toggle_irq(masks, fails) ==
    /\ pc = "idle"
    /\ \E irqs \in masks, enable \in BOOLEAN, f \in fails :
          Commit("toggle_irq", <<irqs, enable>>,
                 toggle_irq(Fresh(<<>>, f), irqs, enable), 0, "idle")
    /\ Snapshot

Do_clear_irq(statuses, fails) ==
    /\ pc = "idle"
    /\ \E sv \in statuses, f \in fails :
          Commit("clear_irq", <<>>, clear_irq(Fresh(StatusFile(sv), f)), 0, "idle")
    /\ Snapshot

Do_read_irq(statuses, fails) ==
    /\ pc = "idle"
    /\ \E sv \in statuses, f \in fails :
          Commit("read_irq", <<>>, read_irq(Fresh(StatusFile(sv), f)), 0, "idle")
    /\ Snapshot

Do_set_power_output(channels, fails) ==
    /\ pc = "idle"
    /\ \E channel \in channels, pstate \in {On, Off}, f \in fails :
          LET res == set_power_output(Fresh(<<>>, f), channel, pstate, 0)
          IN Commit("set_power_output", <<channel, pstate>>, res, res.delay, res.pc)
    /\ Snapshot

\* The loop of set_power_output going round once more.  The model follows
\* at most MaxZeroReads zero reads in a row; after that the call waits for
\* the device to change the register.
Do_busy_wait(fails) ==
    /\ pc = "busy_wait"
    /\ regs[Ldo234Dc23Ctl] # 0 \/ Len(log) < MaxZeroReads
    /\ \E f \in fails :
          LET failAt == IF f = 0 THEN 0 ELSE Len(log) + f
              res == busy_wait(Self(<<>>, failAt), state[2],
                               call.args[1], call.args[2], delays)
          IN Commit(call.op, call.args, res, res.delay, res.pc)
    /\ UNCHANGED old

\* The device leaves the state in which the rail-control register reads zero
\* (power-up, a reset): the register takes a non-zero value on the device's
\* own account.  Otherwise the register holds the last value written.
DeviceSettle(rails) ==
    /\ regs[Ldo234Dc23Ctl] = 0
    /\ \E v \in rails \ {0} :
          regs' = [regs EXCEPT ![Ldo234Dc23Ctl] = v]
    /\ UNCHANGED <<state, address, pc, call, log, delays, old>>

\* Every operation of the driver, the transport failing where it may
Init == Construct(Addresses, FewRailBytes, FewEnableInits)

Next ==
    \/ Do_init(IdBytes, 0..1)
    \/ Do_flag_query(FewStatusBytes, 0..1)
    \/ Do_get_battery_percentage(FewStatusBytes, 0..1)
    \/ Do_get_battery_voltage({\H80}, {\H05}, 0..2)
    \/ Do_toggle_irq(FewEventMasks, 0..4)
    \/ Do_clear_irq(FewStatusSamples, 0..5)
    \/ Do_read_irq(FewStatusSamples, 0..10)
    \/ Do_set_power_output(FewChannels, 0..2)
    \/ Do_busy_wait(0..2)
    \/ DeviceSettle(FewRailBytes)

Spec == Init /\ [][Next]_vars

\* Initialization and the power rails, over the wide inputs
InitPower == Construct({DEFAULT_AXP202_SLAVE_ADDR}, RailBytes, FewEnableInits)

NextPower ==
    \/ Do_init(IdBytes, 0..1)
    \/ Do_set_power_output(Channels, 0..2)
    \/ Do_busy_wait(0..2)
    \/ DeviceSettle(RailBytes)

SpecPower == InitPower /\ [][NextPower]_vars

\* The interrupt registers, over the wide inputs, on a transport that does
\* not fail
InitIrq == Construct({DEFAULT_AXP202_SLAVE_ADDR}, {\H05}, EnableInits)

NextIrq ==
    \/ Do_toggle_irq(EventMasks, NoFailure)
    \/ Do_clear_irq(StatusSamples, NoFailure)
    \/ Do_read_irq(StatusSamples, NoFailure)

SpecIrq == InitIrq /\ [][NextIrq]_vars

\* The power rails on a transport that does not fail, the running call
\* always getting to execute its next loop iteration
InitLive == Construct({DEFAULT_AXP202_SLAVE_ADDR}, FewRailBytes, FewEnableInits)

NextLive ==
    \/ Do_init({\H41, \H03}, NoFailure)
    \/ Do_set_power_output({Exten, Ldo2}, NoFailure)
    \/ Do_busy_wait(NoFailure)
    \/ DeviceSettle(FewRailBytes)

SpecLive == InitLive /\ [][NextLive]_vars /\ WF_vars(Do_busy_wait(NoFailure))

\* Axp202 with a rail-control register that starts non-zero and holds the
\* last value written, on a transport that does not fail
InitPrimary ==
    Construct({DEFAULT_AXP202_SLAVE_ADDR}, RailBytes \ {\H00}, FewEnableInits)

NextPrimary ==
    \/ Do_init({\H41}, NoFailure)
    \/ Do_set_power_output(Channels, NoFailure)

SpecPrimary == InitPrimary /\ [][NextPrimary]_vars

\* The bank codec of EventsIrq applied to one byte: from_intN_u8(b), and
\* into_intN_u8 of the result
from_int_u8(n, val) ==
    CASE n = 1 -> from_int1_u8(val)
      [] n = 2 -> from_int2_u8(val)
      [] n = 3 -> from_int3_u8(val)
      [] n = 4 -> from_int4_u8(val)
      [] n = 5 -> from_int5_u8(val)

into_int_u8(n, mask) ==
    CASE n = 1 -> into_int1_u8(mask)
      [] n = 2 -> into_int2_u8(mask)
      [] n = 3 -> into_int3_u8(mask)
      [] n = 4 -> into_int4_u8(mask)
      [] n = 5 -> into_int5_u8(mask)

Do_codec(bytes) ==
    /\ pc = "idle"
    /\ \E n \in 1..5, b \in bytes :
          LET mask == from_int_u8(n, b)
          IN call' = [op |-> "codec", args |-> <<n, b>>,
                      ret |-> Ok(<<mask, into_int_u8(n, mask)>>)]
    /\ UNCHANGED <<state, address, regs, pc, log, delays, old>>

InitCodec == Construct({DEFAULT_AXP202_SLAVE_ADDR}, {\H05}, FewEnableInits)

NextCodec == Do_codec(Byte)

SpecCodec == InitCodec /\ [][NextCodec]_vars

----------------------------------------------------------------------------
(* Properties                                                              *)

\* Positions in the log of the writes to the rail-control register
RailWrites ==
    {i \in 1..Len(log) : log[i].kind = "write" /\ log[i].reg = Ldo234Dc23Ctl}

IsSetPowerOutput == call.op = "set_power_output"
Channel == call.args[1]
PState == call.args[2]
NotPrimary == {Initialized(c) : c \in ChipIds \ {"Axp202"}}

\* C1: set_power_output on a handle that was never initialized returns
\* Error::Uninitialized, for every rail mask and state, having issued no bus
\* transaction and no delay.
C1_UninitializedNoBus ==
    (IsSetPowerOutput /\ old.state = Uninitialized)
        => /\ call.ret = Err(ErrUninitialized)
           /\ log = <<>>
           /\ delays = 0
           /\ pc = "idle"
           /\ state = Uninitialized

C1_Witness ==
    /\ IsSetPowerOutput
    /\ old.state = Uninitialized
    /\ call.args = <<\H5F, On>>
    /\ call.ret.tag = "Err"

\* C2: whatever the chip identity, the rail mask and the desired state,
\* set_power_output never writes 0x00 (all rails off) to the rail-control
\* register.
C2_NeverAllRailsOff ==
    IsSetPowerOutput => \A i \in RailWrites : log[i].val # 0

\* C3: on Axp202 every successful set_power_output writes to the rail-control
\* register a value with the DcDc3 bit (bit 1) set, also when the request is to
\* turn DcDc3 off.
C3_PrimaryForcesDcDc3 ==
    (IsSetPowerOutput /\ pc = "idle" /\ call.ret.tag = "Ok"
        /\ old.state = Initialized("Axp202"))
        => /\ RailWrites # {}
           /\ \A i \in RailWrites : Bit(log[i].val, 1) = 1

C3_Witness ==
    /\ IsSetPowerOutput /\ pc = "idle" /\ call.ret.tag = "Ok"
    /\ old.state = Initialized("Axp202")
    /\ call.args = <<DcDc3, Off>>
    /\ Len(log) = 2 /\ log[1].val = \H02 /\ log[2].val = \H02

\* C4: on a chip other than Axp202 the DcDc3 bit of the value written is set
\* only if the request is On with DcDc3 in the rail mask, or the bit was set in
\* the value read and the request does not turn DcDc3 off.
C4_OthersNeverForceDcDc3 ==
    (IsSetPowerOutput /\ old.state \in NotPrimary)
        => \A i \in RailWrites :
              Bit(log[i].val, 1) = 1
                  => \/ PState = On /\ Bit(Channel, 1) = 1
                     \/ /\ i > 1 /\ log[i - 1].kind = "write_read"
                        /\ Bit(log[i - 1].val, 1) = 1
                        /\ ~(PState = Off /\ Bit(Channel, 1) = 1)

C4_Witness ==
    /\ IsSetPowerOutput /\ pc = "idle" /\ call.ret.tag = "Ok"
    /\ old.state = Initialized("Unknown")
    /\ call.args = <<Ldo2, On>>
    /\ Len(log) = 2 /\ log[1].val = \H01 /\ log[2].val = \H05

IsToggleIrq == call.op = "toggle_irq"
Irqs == call.args[1]
Enable == call.args[2]
IsReadIrq == call.op = "read_irq"
EnabledRegSet == {EnabledRegs[n] : n \in 1..5}
StatusRegSet == {StatusRegs[n] : n \in 1..5}

\* C5: toggle_irq(mask, enable) reads and writes only the enable registers of
\* the banks whose byte of the mask is not zero, for enable true and false:
\* the other banks see no transaction and keep their content, and no status
\* register is accessed.
C5_OnlyIntersectedBanks ==
    IsToggleIrq
        => /\ \A i \in 1..Len(log) :
                 /\ log[i].reg \in EnabledRegSet
                 /\ log[i].reg \notin StatusRegSet
           /\ \A n \in 1..5 :
                 Irqs[n] = 0
                     => /\ \A i \in 1..Len(log) : log[i].reg # EnabledRegs[n]
                        /\ regs[EnabledRegs[n]] = old.regs[EnabledRegs[n]]

C5_Witness ==
    /\ IsToggleIrq
    /\ Irqs = <<1, 0, 0, 0, 1, 0, 0, 0>>
    /\ Enable = FALSE
    /\ Len(log) = 4
    /\ log[3].reg = EnabledIrq5

\* C6: toggle_irq(mask, true) followed by toggle_irq(mask, false), both
\* succeeding, leaves every IRQ-enable register as it was before the two
\* calls.
C6_RoundTrip ==
    [][ ( /\ call.op = "toggle_irq" /\ call.args[2] = TRUE /\ call.ret.tag = "Ok"
          /\ call'.op = "toggle_irq" /\ call'.args = <<call.args[1], FALSE>>
          /\ call'.ret.tag = "Ok" )
        => \A n \in 1..5 : regs'[EnabledRegs[n]] = old.regs[EnabledRegs[n]] ]_vars

\* C7: when no transaction fails, read_irq issues the five reads of the status
\* registers 0x48..0x4C and then the five writes of 0xFF to the same registers,
\* in this order and nothing else, whatever the bytes read.
C7_FiveReadsThenFiveWrites ==
    (IsReadIrq /\ \A i \in 1..Len(log) : log[i].ok)
        => /\ Len(log) = 10
           /\ \A n \in 1..5 :
                 /\ log[n].kind = "write_read"
                 /\ log[n].reg = StatusRegs[n]
                 /\ log[5 + n].kind = "write"
                 /\ log[5 + n].reg = StatusRegs[n]
                 /\ log[5 + n].val = \HFF

C7_Witness ==
    /\ IsReadIrq
    /\ Len(log) = 10
    /\ \A n \in 1..5 : log[n].val = 0 /\ log[5 + n].val = \HFF

\* C8: a successful read_irq returns the mask whose byte n is the byte read
\* from status register n in that call, and whose bits 40..63 are zero.
C8_ReadIrqMask ==
    (IsReadIrq /\ call.ret.tag = "Ok")
        => /\ Len(log) >= 5
           /\ call.ret.val = <<log[1].val, log[2].val, log[3].val, log[4].val,
                               log[5].val, 0, 0, 0>>

C8_Witness ==
    /\ IsReadIrq /\ call.ret.tag = "Ok"
    /\ call.ret.val = <<18, 52, 86, 120, 154, 0, 0, 0>>

\* C9: once the lifecycle is Initialized(id), no step changes it, a further
\* init included.
C9_IdentityImmutable ==
    [][ state[1] = "Initialized" => state' = state ]_vars

\* The identity a byte of the identity register stands for
IdentityOf(b) ==
    CASE b = 65 -> "Axp202"
      [] b = 3 -> "Axp192"
      [] b = 173 -> "Axp173"
      [] OTHER -> "Unknown"

\* C10: init issues one read of the identity register and nothing else; when
\* the read succeeds init returns Ok and the lifecycle is Initialized(id), id
\* being Axp202 for 0x41, Axp192 for 0x03, Axp173 for 0xAD and Unknown for any
\* other byte.
C10_InitDecodesIdentity ==
    call.op = "init"
        => /\ Len(log) = 1
           /\ log[1].kind = "write_read"
           /\ log[1].reg = IcType
           /\ delays = 0
           /\ log[1].ok => /\ call.ret = Ok(<<>>)
                           /\ state = Initialized(IdentityOf(log[1].val))

C10_Witness ==
    /\ call.op = "init"
    /\ log[1].ok /\ log[1].val = \H42
    /\ call.ret.tag = "Ok"
    /\ state = Initialized("Unknown")
    /\ old.state = Initialized("Axp192")

\* The u64 with byte b in bank n (bits [8(n-1), 8n)) and nothing else
OnlyBank(n, b) == [i \in 1..8 |-> IF i = n THEN b ELSE 0]

\* C11: for every bank and every byte b, from_intN_u8(b) is b placed in the
\* eight bits of bank N with every other bit clear, and into_intN_u8 of it
\* gives b back.
C11_BankCodecRoundTrip ==
    call.op = "codec"
        => /\ call.ret.val[1] = OnlyBank(call.args[1], call.args[2])
           /\ call.ret.val[2] = call.args[2]

C11_Witness ==
    /\ call.op = "codec"
    /\ call.args = <<4, \HA5>>
    /\ call.ret.val = <<(<<0, 0, 0, \HA5, 0, 0, 0, 0>>), \HA5>>

\* A successful set_power_output on an initialized handle
SetPowerOutputOk ==
    /\ IsSetPowerOutput /\ pc = "idle" /\ call.ret.tag = "Ok"
    /\ old.state # Uninitialized

\* The log of such a call is zero reads of the rail-control register, one
\* non-zero read and one write
OneWriteAfterZeroReads ==
    /\ Len(log) >= 2
    /\ \A i \in 1..Len(log) : log[i].reg = Ldo234Dc23Ctl /\ log[i].ok
    /\ \A i \in 1..(Len(log) - 1) : log[i].kind = "write_read"
    /\ \A i \in 1..(Len(log) - 2) : log[i].val = 0
    /\ log[Len(log) - 1].val # 0
    /\ log[Len(log)].kind = "write"

ValueRead == log[Len(log) - 1].val
ValueWritten == log[Len(log)].val
IsQuirkBit(k) == old.state = Initialized("Axp202") /\ k = 1

\* C12 as stated: the single write keeps every bit outside the rail mask
\* (and, on Axp202, outside DcDc3) as first read non-zero, and every bit of
\* the rail mask is 1 for On and 0 for Off.
C12_WriteFromFirstNonZero ==
    SetPowerOutputOk
        => /\ OneWriteAfterZeroReads
           /\ \A k \in 0..7 :
                 IF Bit(Channel, k) = 1
                 THEN Bit(ValueWritten, k) = (IF PState = On THEN 1 ELSE 0)
                 ELSE IsQuirkBit(k) \/ Bit(ValueWritten, k) = Bit(ValueRead, k)

\* C12 amended: the same, except that on Axp202 the DcDc3 bit of the value
\* written is 1 whatever the request, Off with DcDc3 in the rail mask included.
C12_WriteFromFirstNonZeroAmended ==
    SetPowerOutputOk
        => /\ OneWriteAfterZeroReads
           /\ \A k \in 0..7 :
                 IF IsQuirkBit(k) THEN Bit(ValueWritten, k) = 1
                 ELSE IF Bit(Channel, k) = 1
                 THEN Bit(ValueWritten, k) = (IF PState = On THEN 1 ELSE 0)
                 ELSE Bit(ValueWritten, k) = Bit(ValueRead, k)

C12_Witness ==
    /\ SetPowerOutputOk
    /\ old.state = Initialized("Axp202")
    /\ call.args = <<Ldo2, On>>
    /\ Len(log) = 3
    /\ log[1].val = \H00 /\ log[2].val = \H05 /\ log[3].val = \H07

\* The banks a toggle_irq mask intersects, and the position of bank n among
\* them in ascending order
Intersected == {n \in 1..5 : Irqs[n] # 0}
Rank(n) == Cardinality({m \in Intersected : m <= n})
ToggleIrqOk(enable) ==
    /\ IsToggleIrq /\ Enable = enable /\ call.ret.tag = "Ok"
    /\ Len(log) = 2 * Cardinality(Intersected)
ReadOf(n) == log[2 * Rank(n) - 1]
WriteOf(n) == log[2 * Rank(n)]

\* C13: toggle_irq(mask, false) writes to every intersected bank the byte
\* just read from its enable register with the requested bits cleared, so the
\* requested events end disabled and the other events of the bank stay as
\* they were.
C13_DisableClearsRequested ==
    ToggleIrqOk(FALSE)
        => \A n \in Intersected :
              /\ ReadOf(n).kind = "write_read" /\ ReadOf(n).reg = EnabledRegs[n]
              /\ WriteOf(n).kind = "write" /\ WriteOf(n).reg = EnabledRegs[n]
              /\ WriteOf(n).val = BitAnd(ReadOf(n).val, BitNot(Irqs[n]))
              /\ BitAnd(regs[EnabledRegs[n]], Irqs[n]) = 0

\* C14: toggle_irq(mask, true) issues, for each intersected bank in ascending
\* order, one read of the bank's enable register and then one write to the
\* same register of the byte read OR the bank's byte of the mask, and nothing
\* else.
C14_EnableOrsRequested ==
    (IsToggleIrq /\ Enable = TRUE /\ call.ret.tag = "Ok")
        => /\ Len(log) = 2 * Cardinality(Intersected)
           /\ \A n \in Intersected :
                 /\ ReadOf(n).kind = "write_read"
                 /\ ReadOf(n).reg = EnabledRegs[n]
                 /\ ReadOf(n).val = old.regs[EnabledRegs[n]]
                 /\ WriteOf(n).kind = "write"
                 /\ WriteOf(n).reg = EnabledRegs[n]
                 /\ WriteOf(n).val = BitOr(ReadOf(n).val, Irqs[n])
                 /\ regs[EnabledRegs[n]] = WriteOf(n).val

C14_Witness ==
    /\ ToggleIrqOk(TRUE)
    /\ Irqs = <<16, 32, 0, 64, 0, 0, 0, 0>>
    /\ old.regs[EnabledIrq1] = 4 /\ old.regs[EnabledIrq2] = 8
    /\ old.regs[EnabledIrq4] = 0
    /\ Len(log) = 6
    /\ log[2].val = 20 /\ log[4].val = 40 /\ log[6].val = 64
    /\ log[5].reg = EnabledIrq4

RailReg == regs[Ldo234Dc23Ctl]
IsZeroRead(e) == e.kind = "write_read" /\ e.reg = Ldo234Dc23Ctl /\ e.ok /\ e.val = 0
InBusyWait == IsSetPowerOutput /\ pc = "busy_wait"

\* Each read is followed by one delay; a zero read is followed by another
\* read, or is the last transaction so far of a call that has not returned;
\* a call that has not returned has read only zeros and written nothing.
BusyWaitShape ==
    (IsSetPowerOutput /\ old.state # Uninitialized)
        => /\ delays = Cardinality({i \in 1..Len(log) : log[i].kind = "write_read"})
           /\ \A i \in 1..Len(log) :
                 IsZeroRead(log[i])
                     => IF i = Len(log) THEN pc = "busy_wait" /\ call.ret = Pending
                        ELSE log[i + 1].kind = "write_read"
           /\ pc = "busy_wait" => \A i \in 1..Len(log) : IsZeroRead(log[i])

\* C15: in set_power_output on an initialized device each read of the
\* rail-control register is followed by one delay and, when it read zero, by
\* another read; while the register reads zero the call does not return and
\* does not write; once the register reads non-zero, on a bus that does not
\* fail, the call returns Ok.
C15_BusyWaitLiveness ==
    /\ []BusyWaitShape
    /\ [][(InBusyWait /\ RailReg = 0)
             => /\ pc' = "busy_wait"
                /\ \/ log' = log
                   \/ /\ log' = Append(log, log'[Len(log')])
                      /\ IsZeroRead(log'[Len(log')])]_vars
    /\ (InBusyWait /\ RailReg # 0) ~> (pc = "idle" /\ call.ret = Ok(<<>>))

C15_Witness ==
    /\ IsSetPowerOutput /\ pc = "idle" /\ call.ret = Ok(<<>>)
    /\ Len(log) = 4 /\ delays = 3
    /\ IsZeroRead(log[1]) /\ IsZeroRead(log[2])
    /\ log[3].kind = "write_read" /\ log[3].val # 0
    /\ log[4].kind = "write"

\* The last successful write to register r in the log, 0 when there is none
LastWrite(r) ==
    LET W == {i \in 1..Len(log) : log[i].kind = "write" /\ log[i].reg = r /\ log[i].ok}
    IN IF W = {} THEN 0 ELSE CHOOSE i \in W : \A j \in W : j <= i

ReturnedI2cError == call.ret.tag = "Err" /\ call.ret.val = I2cError

\* C16: a failed bus transaction is the last transaction of its call, the
\* call has returned I2cError, and I2cError is returned for no other reason;
\* every enable register holds the last value successfully written to it in
\* the call, or what it held before the call when there was none.
C16_BusErrorsTerminal ==
    /\ \A i \in 1..Len(log) :
          ~log[i].ok => /\ i = Len(log)
                        /\ pc = "idle"
                        /\ ReturnedI2cError
    /\ ReturnedI2cError => Len(log) >= 1 /\ ~log[Len(log)].ok
    /\ \A n \in 1..5 :
          regs[EnabledRegs[n]] =
              IF LastWrite(EnabledRegs[n]) = 0 THEN old.regs[EnabledRegs[n]]
              ELSE log[LastWrite(EnabledRegs[n])].val

C16_Witness ==
    /\ IsToggleIrq /\ call.ret = Err(I2cError)
    /\ Len(log) = 4 /\ ~log[4].ok /\ log[4].kind = "write"
    /\ log[4].reg = EnabledIrq3
    /\ regs[EnabledIrq1] = 1 /\ old.regs[EnabledIrq1] = 0
    /\ regs[EnabledIrq3] = old.regs[EnabledIrq3]

\* C17: on Axp202, the rail-control register non-zero at the start and the
\* bus never failing, the register is non-zero after every set_power_output
\* and every such call returns Ok after one read, one delay and one write.
C17_PrimaryNeverWaits ==
    /\ RailReg # 0
    /\ pc = "idle"
    /\ (IsSetPowerOutput /\ old.state = Initialized("Axp202"))
          => /\ call.ret = Ok(<<>>)
             /\ delays = 1
             /\ Len(log) = 2
             /\ log[1].kind = "write_read" /\ log[1].reg = Ldo234Dc23Ctl
             /\ log[1].val = old.regs[Ldo234Dc23Ctl]
             /\ log[2].kind = "write" /\ log[2].reg = Ldo234Dc23Ctl
             /\ log[2].val = RailReg

C17_Witness ==
    /\ IsSetPowerOutput /\ old.state = Initialized("Axp202")
    /\ call.args = <<\H5F, Off>>
    /\ old.regs[Ldo234Dc23Ctl] = DcDc3
    /\ Len(log) = 2 /\ log[2].val = DcDc3
    /\ call.ret = Ok(<<>>)

IsInit == call.op = "init"

\* C18: construction leaves the handle Uninitialized with nothing on the
\* bus; the lifecycle state changes only in an init that returns Ok, which
\* makes it Initialized; an init that fails leaves it as it was; no step
\* takes an Initialized handle back to Uninitialized.
C18_LifecycleOnlyInInit ==
    /\ [](call.op = "new" => state = Uninitialized /\ log = <<>>)
    /\ []((IsInit /\ call.ret.tag = "Err") => state = old.state)
    /\ [][state' # state
             => /\ call'.op = "init" /\ call'.ret = Ok(<<>>)
                /\ state'[1] = "Initialized"]_vars
    /\ [][state # Uninitialized => state' # Uninitialized]_vars

C18_Witness ==
    /\ IsInit /\ call.ret = Err(I2cError)
    /\ old.state = Initialized("Axp202")
    /\ state = Initialized("Axp202")

\* C19: read_irq writes to a status register only after its five status
\* reads succeeded; when one of the reads fails the call returns an error
\* and its log holds no write.
C19_NoClearBeforeFullRead ==
    IsReadIrq
        => /\ (\E i \in 1..Len(log) : log[i].kind = "write")
                 => /\ Len(log) > 5
                    /\ \A n \in 1..5 :
                          /\ log[n].kind = "write_read"
                          /\ log[n].reg = StatusRegs[n]
                          /\ log[n].ok
                    /\ \A i \in 6..Len(log) : log[i].kind = "write"
           /\ (\E i \in 1..Len(log) : log[i].kind = "write_read" /\ ~log[i].ok)
                 => /\ call.ret = Err(I2cError)
                    /\ \A i \in 1..Len(log) : log[i].kind = "write_read"

C19_Witness ==
    /\ IsReadIrq /\ call.ret = Err(I2cError)
    /\ Len(log) = 3 /\ ~log[3].ok
    /\ log[3].kind = "write_read" /\ log[3].reg = StatusIrq3

=============================================================================
